---- MODULE Spec2Model ----
(***************************************************************************)
(* Model of flowlog_parser.py: FlowLogParser.load_lookup, parse_flow_logs, *)
(* write_output and run, driven by main.  Text is modelled as sequences of *)
(* one-character strings so that strip, split, lower, int() and str() are  *)
(* computed rather than assumed.  A Python dict is modelled as a sequence  *)
(* of <<key, value>> entries in insertion order.                           *)
(***************************************************************************)
EXTENDS Integers, Sequences, FiniteSets, TLC

(* ---------------------------- bounds ----------------------------------- *)
MaxRows == 2     \* data rows of the lookup CSV
MaxLines == 2    \* lines of the flow log

(* ------------------------- character level ----------------------------- *)
\* ord() of the characters that occur in the modelled inputs (ASCII).
Ord ==
  [c \in {"\t", "\n", " ", "+", ",", "-", "/", ":", "_",
          "0", "1", "2", "3", "4", "5", "6", "7", "8", "9",
          "C", "I", "M", "O", "P", "T", "U",
          "a", "b", "c", "d", "e", "g", "i", "l", "m", "n", "o", "p",
          "r", "s", "t", "u", "w", "x"} |->
     CASE c = "\t" -> 9   [] c = "\n" -> 10  [] c = " " -> 32
       [] c = "+" -> 43   [] c = "," -> 44   [] c = "-" -> 45
       [] c = "/" -> 47   [] c = ":" -> 58   [] c = "_" -> 95
       [] c = "0" -> 48   [] c = "1" -> 49   [] c = "2" -> 50
       [] c = "3" -> 51   [] c = "4" -> 52   [] c = "5" -> 53
       [] c = "6" -> 54   [] c = "7" -> 55   [] c = "8" -> 56
       [] c = "9" -> 57
       [] c = "C" -> 67   [] c = "I" -> 73   [] c = "M" -> 77
       [] c = "O" -> 79   [] c = "P" -> 80
       [] c = "T" -> 84   [] c = "U" -> 85
       [] c = "a" -> 97   [] c = "b" -> 98   [] c = "c" -> 99
       [] c = "d" -> 100  [] c = "e" -> 101  [] c = "g" -> 103
       [] c = "i" -> 105  [] c = "l" -> 108  [] c = "m" -> 109
       [] c = "n" -> 110  [] c = "o" -> 111  [] c = "p" -> 112
       [] c = "r" -> 114  [] c = "s" -> 115  [] c = "t" -> 116
       [] c = "u" -> 117  [] c = "w" -> 119  [] c = "x" -> 120]

Chr(n) == CHOOSE c \in DOMAIN Ord : Ord[c] = n

IsSpace(c) == c \in {" ", "\t", "\n"}

IsDigit(c) == c \in {"0", "1", "2", "3", "4", "5", "6", "7", "8", "9"}

DigitVal(c) == Ord[c] - 48
\* A lower() that changes nothing.
LowerCharKept(c) == c

\* str.lower() on one character: only A-Z change.
LowerChar(c) == IF Ord[c] >= 65 /\ Ord[c] <= 90 THEN Chr(Ord[c] + 32) ELSE c

(* ---------------------------- str methods ------------------------------ *)
\* str.lower()
Lower(s) == [i \in 1..Len(s) |-> LowerChar(s[i])]

RECURSIVE LStrip(_)
LStrip(s) == IF s # <<>> /\ IsSpace(Head(s)) THEN LStrip(Tail(s)) ELSE s

RECURSIVE RStrip(_)
RStrip(s) ==
  IF s # <<>> /\ IsSpace(s[Len(s)]) THEN RStrip(SubSeq(s, 1, Len(s) - 1)) ELSE s

\* str.strip() with no argument
Strip(s) == RStrip(LStrip(s))

\* str.split() with no argument: split on runs of whitespace, no empty tokens.
\* acc is the list of finished tokens, cur the token being read.
RECURSIVE SplitFrom(_, _, _)
SplitFrom(s, acc, cur) ==
  IF s = <<>>
    THEN IF cur = <<>> THEN acc ELSE Append(acc, cur)
    ELSE IF IsSpace(Head(s))
           THEN SplitFrom(Tail(s), IF cur = <<>> THEN acc ELSE Append(acc, cur), <<>>)
           ELSE SplitFrom(Tail(s), acc, Append(cur, Head(s)))

Split(s) == SplitFrom(s, <<>>, <<>>)

(* ------------------------------- int() --------------------------------- *)
\* Digits of an integer literal after the sign: digits, with single
\* underscores allowed between digits.
RECURSIVE IsDigitRun(_, _)
IsDigitRun(s, prevDigit) ==
  IF s = <<>> THEN prevDigit
  ELSE IF IsDigit(Head(s)) THEN IsDigitRun(Tail(s), TRUE)
  ELSE IF Head(s) = "_" THEN prevDigit /\ IsDigitRun(Tail(s), FALSE)
  ELSE FALSE

HasSign(s) == s # <<>> /\ Head(s) \in {"+", "-"}

Unsigned(s) == IF HasSign(s) THEN Tail(s) ELSE s

\* TRUE iff int(s) returns, FALSE iff it raises ValueError.
IsInt(s) == IsDigitRun(Unsigned(Strip(s)), FALSE)

RECURSIVE DigitsValue(_, _)
DigitsValue(s, acc) ==
  IF s = <<>> THEN acc
  ELSE IF Head(s) = "_" THEN DigitsValue(Tail(s), acc)
  ELSE DigitsValue(Tail(s), 10 * acc + DigitVal(Head(s)))

\* The value of int(s), for s with IsInt(s).
Int_(s) ==
  LET t == Strip(s)
      v == DigitsValue(Unsigned(t), 0)
  IN  IF HasSign(t) /\ Head(t) = "-" THEN 0 - v ELSE v

(* ------------------------------- str() --------------------------------- *)
RECURSIVE NatStr(_)
NatStr(n) ==
  IF n < 10 THEN <<Chr(48 + n)>> ELSE Append(NatStr(n \div 10), Chr(48 + (n % 10)))

\* str(n) of an integer
Str(n) == IF n < 0 THEN <<"-">> \o NatStr(0 - n) ELSE NatStr(n)

(* ------------------------------- dict ---------------------------------- *)
\* A dict is a sequence of <<key, value>> entries, in insertion order.
Keys(d) == [i \in 1..Len(d) |-> d[i][1]]

KeySet(d) == {d[i][1] : i \in 1..Len(d)}

Has(d, k) == k \in KeySet(d)

\* dict.get(k, default)
Get(d, k, default) ==
  IF Has(d, k) THEN d[CHOOSE i \in 1..Len(d) : d[i][1] = k][2] ELSE default

\* d[k] = v : overwrite keeps the key's position, a new key goes last.
Set(d, k, v) ==
  IF Has(d, k)
    THEN [i \in 1..Len(d) |-> IF d[i][1] = k THEN <<k, v>> ELSE d[i]]
    ELSE Append(d, <<k, v>>)
\* d[k] = 1 in place of d[k] += 1.
IncrAssign(d, k) == Set(d, k, 1)

\* defaultdict(int): d[k] += 1
Incr(d, k) == Set(d, k, Get(d, k, 0) + 1)

(* ------------------------------ sorted() ------------------------------- *)
\* Ordinal comparison of two strings: a < b
RECURSIVE StrLess(_, _)
StrLess(a, b) ==
  IF b = <<>> THEN FALSE
  ELSE IF a = <<>> THEN TRUE
  ELSE IF Head(a) = Head(b) THEN StrLess(Tail(a), Tail(b))
  ELSE Ord[Head(a)] < Ord[Head(b)]
\* Ports compared as text, as sorting the rendered port would.
PairLessText(a, b) ==
  StrLess(Str(a[1]), Str(b[1])) \/ (a[1] = b[1] /\ StrLess(a[2], b[2]))

\* Comparison of the sort keys (x[0], x[1]) of two (port, proto) pairs.
PairLess(a, b) == a[1] < b[1] \/ (a[1] = b[1] /\ StrLess(a[2], b[2]))

\* x < y under the sort key in use: "tag" compares strings, "pair" compares
\* (port, proto) tuples.
Less(key, x, y) == IF key = "tag" THEN StrLess(x, y) ELSE PairLess(x, y)

\* Stable insertion of x into the sorted sequence s.
RECURSIVE InsertSorted(_, _, _)
InsertSorted(s, x, key) ==
  IF s = <<>> THEN <<x>>
  ELSE IF Less(key, x, Head(s)) THEN <<x>> \o s
  ELSE <<Head(s)>> \o InsertSorted(Tail(s), x, key)

\* sorted(s, key=...)
RECURSIVE SortedFrom(_, _, _)
SortedFrom(s, acc, key) ==
  IF s = <<>> THEN acc ELSE SortedFrom(Tail(s), InsertSorted(acc, Head(s), key), key)

\* sorted(self.tag_counts.keys())
SortedTags(keys) == SortedFrom(keys, <<>>, "tag")

\* sorted(self.port_proto_counts.keys(), key=lambda x: (x[0], x[1]))
SortedPairs(keys) == SortedFrom(keys, <<>>, "pair")

(* ------------------------- program constants --------------------------- *)
tcp == <<"t", "c", "p">>
udp == <<"u", "d", "p">>
icmp == <<"i", "c", "m", "p">>

\* PROTOCOL_MAP
PROTOCOL_MAP == << <<6, tcp>>, <<17, udp>>, <<1, icmp>> >>

Untagged == <<"U", "n", "t", "a", "g", "g", "e", "d">>

dstport == <<"d", "s", "t", "p", "o", "r", "t">>
protocol == <<"p", "r", "o", "t", "o", "c", "o", "l">>
tag == <<"t", "a", "g">>

\* Python's None: no text has an element longer than one character.
None == <<"None">>

(* ------------------------- csv.DictReader ------------------------------ *)
\* dict(zip(fieldnames, row)), entry by entry.
RECURSIVE Zip(_, _, _)
Zip(d, fieldnames, cells) ==
  IF fieldnames = <<>> \/ cells = <<>> THEN d
  ELSE Zip(Set(d, Head(fieldnames), Head(cells)), Tail(fieldnames), Tail(cells))

\* for key in fieldnames[lr:]: d[key] = restval (None)
RECURSIVE FillRest(_, _)
FillRest(d, missing) ==
  IF missing = <<>> THEN d ELSE FillRest(Set(d, Head(missing), None), Tail(missing))

\* The dict DictReader yields for a non-empty row: surplus cells go under the
\* key None (restkey), missing cells are None (restval).
DictReaderRow(fieldnames, cells) ==
  LET lf == Len(fieldnames)
      lr == Len(cells)
      d  == Zip(<<>>, fieldnames, cells)
  IN  IF lf < lr THEN Set(d, None, None)
      ELSE IF lf > lr THEN FillRest(d, SubSeq(fieldnames, lr + 1, lf))
      ELSE d

(* --------------------------- load_lookup ------------------------------- *)
\* key.strip() or value.strip() raises AttributeError on None (and on the
\* list of surplus cells stored under the key None).
StripRaises(row) == \E i \in 1..Len(row) : row[i][1] = None \/ row[i][2] = None

\* {key.strip(): value.strip() for key, value in row.items()}
RECURSIVE StripItems(_, _)
StripItems(d, items) ==
  IF items = <<>> THEN d
  ELSE StripItems(Set(d, Strip(Head(items)[1]), Strip(Head(items)[2])), Tail(items))

\* The statements of the try block succeed in order; the first failure raises
\* (KeyError for an absent column, ValueError from int()).
TryRaises(row) ==
  \/ ~Has(row, dstport)
  \/ ~IsInt(Strip(Get(row, dstport, None)))
  \/ ~Has(row, protocol)
  \/ ~Has(row, tag)
\* The first rule of a key kept: self.lookup.setdefault((port, proto), tag).
InsertRuleFirst(lk, row) ==
  LET port  == Int_(Strip(Get(row, dstport, None)))
      proto == Lower(Strip(Get(row, protocol, None)))
      t     == Strip(Get(row, tag, None))
  IN  IF Has(lk, <<port, proto>>) THEN lk ELSE Set(lk, <<port, proto>>, t)

\* self.lookup[(port, proto)] = tag
InsertRule(lk, row) ==
  LET port  == Int_(Strip(Get(row, dstport, None)))
      proto == Lower(Strip(Get(row, protocol, None)))
      t     == Strip(Get(row, tag, None))
  IN  Set(lk, <<port, proto>>, t)

\* One iteration of "for row in reader": the lookup table after the row, the
\* diagnostics printed, and whether an exception left the loop.
LoadLookupRow(lk, fieldnames, cells) ==
  IF cells = <<>>
    THEN [lookup |-> lk, diag |-> <<>>, raised |-> FALSE]  \* DictReader skips it
  ELSE LET raw == DictReaderRow(fieldnames, cells) IN
    IF StripRaises(raw)
      THEN [lookup |-> lk, diag |-> <<>>, raised |-> TRUE]
    ELSE LET row == StripItems(<<>>, raw) IN
      IF TryRaises(row)
        THEN [lookup |-> lk, diag |-> <<"Skipping lookup row due to error">>,
              raised |-> FALSE]
        ELSE [lookup |-> InsertRule(lk, row), diag |-> <<>>, raised |-> FALSE]

(* ------------------------- parse_flow_logs ----------------------------- *)
\* PROTOCOL_MAP.get(proto_num, str(proto_num)).lower()
ProtoName(proto_num) == Lower(Get(PROTOCOL_MAP, proto_num, Str(proto_num)))
\* The source port, fields[5], read in place of the destination port.
SrcPortField(fields) == fields[6]

\* fields[6] and fields[7] of the source are the 7th and 8th tokens.
DstPortField(fields) == fields[7]

ProtoField(fields) == fields[8]
\* continue without the print.
SkipLineSilent(tc, ppc, msg) ==
  [tag_counts |-> tc, port_proto_counts |-> ppc, diag |-> <<>>]

\* print(..., file=sys.stderr); continue : the line changes neither table.
SkipLine(tc, ppc, msg) ==
  [tag_counts |-> tc, port_proto_counts |-> ppc, diag |-> <<msg>>]

\* One iteration of "for line in infile": the two count tables after the
\* line and the diagnostics printed.
ParseFlowLine(lk, tc, ppc, line) ==
  IF Strip(line) = <<>>
    THEN [tag_counts |-> tc, port_proto_counts |-> ppc, diag |-> <<>>]
  ELSE LET fields == Split(Strip(line)) IN
    IF Len(fields) < 8
      THEN SkipLine(tc, ppc, "Skipping malformed line")
    ELSE IF ~IsInt(DstPortField(fields)) \/ ~IsInt(ProtoField(fields))
      THEN SkipLine(tc, ppc, "Error parsing numeric values in line")
    ELSE LET port  == Int_(DstPortField(fields))
             proto == ProtoName(Int_(ProtoField(fields)))
             t     == Get(lk, <<port, proto>>, Untagged)
         IN  [tag_counts |-> Incr(tc, t),
              port_proto_counts |-> Incr(ppc, <<port, proto>>),
              diag |-> <<>>]

(* --------------------------- write_output ------------------------------ *)
Comma == <<",">>

\* f"{tag},{self.tag_counts[tag]}"
TagRow(tc, t) == t \o Comma \o Str(Get(tc, t, 0))

\* f"{port},{proto},{self.port_proto_counts[(port, proto)]}"
PairRow(ppc, k) == Str(k[1]) \o Comma \o k[2] \o Comma \o Str(Get(ppc, k, 0))

TagHeader == << <<"T","a","g"," ","C","o","u","n","t","s",":">>,
                <<"T","a","g",",","C","o","u","n","t">> >>

PairHeader == << <<>>,
                 <<"P","o","r","t","/","P","r","o","t","o","c","o","l"," ",
                   "C","o","m","b","i","n","a","t","i","o","n"," ",
                   "C","o","u","n","t","s",":">>,
                 <<"P","o","r","t",",","P","r","o","t","o","c","o","l",",",
                   "C","o","u","n","t">> >>

\* The lines written between open and close, each ended by a newline.
ReportLines(tc, ppc) ==
  LET tags  == SortedTags(Keys(tc))
      pairs == SortedPairs(Keys(ppc))
  IN  TagHeader \o [i \in 1..Len(tags) |-> TagRow(tc, tags[i])]
        \o PairHeader \o [i \in 1..Len(pairs) |-> PairRow(ppc, pairs[i])]
\* open(output_filename, "a"): an existing file keeps its lines.
OpenA(f) == [exists |-> TRUE, lines |-> f.lines]

\* open(output_filename, "w"): the file exists and is empty.
OpenW(f) == [exists |-> TRUE, lines |-> <<>>]

\* The output file after write_output.
WriteFile(f, tc, ppc) ==
  LET o == OpenW(f) IN [o EXCEPT !.lines = @ \o ReportLines(tc, ppc)]

(* ------------------------------ inputs --------------------------------- *)
\* Header rows of the lookup CSV: the documented one with padded column
\* names, and one without a dstport column.
Headers ==
  { << dstport, <<" ">> \o protocol, tag \o <<" ">> >>,
    << <<"p", "o", "r", "t">>, protocol, tag >> }

\* Data rows of the lookup CSV, as the cells csv.reader yields.
LookupRows ==
  { << <<"8", "0">>, tcp, <<"w", "e", "b">> >>,
    << <<" ", "+", "8", "0">>, <<" ", "T", "C", "P">>, <<"m", "a", "i", "l", " ">> >>,
    << <<"x">>, tcp, <<"b", "a", "d">> >>,
    << <<"8", "0">>, tcp >>,
    << <<"-", "1">>, udp, <<"n", "e", "g">> >>,
    << <<"4", "4", "3">>, <<"I", "C", "M", "P">>, Untagged >> }

\* "2 a e s d 1 ": version .. srcport of a flow record
RecordHead == <<"2", " ", "a", " ", "e", " ", "s", " ", "d", " ", "1", " ">>

\* " 1 9 0 1 a o\n": packets .. log-status of a flow record
RecordTail == <<" ", "1", " ", "9", " ", "0", " ", "1", " ", "a", " ", "o", "\n">>

\* Lines of the flow log, as iteration over the file yields them.
LogLines ==
  { RecordHead \o <<"8", "0", " ", "6">> \o RecordTail,
    <<" ", "\t", "\n">>,
    <<"2", " ", "a", " ", "e", " ", "s", " ", "d", "\n">>,
    <<" ", "2", " ", "a", " ", " ", "e", " ", "s", " ", "d", " ", "1", "\t",
      "4", "4", "3", " ", " ", "1", "\n">>,
    RecordHead \o <<"8", "0", " ", "9", "9", "\n">>,
    RecordHead \o <<"8", "0", " ", "t", "c", "p", "\n">> }

(* ------------------------------- state --------------------------------- *)
VARIABLES
  pc,                 \* where main is: "run", "load_lookup", "parse_flow_logs",
                      \* "write_output", "done" or "aborted"
  invocation,         \* 1 for the first run of the program, 2 for the second
  lookup_csv_file,    \* the lookup CSV: its header row, then its data rows
  csv_pos,            \* data rows load_lookup has consumed
  flow_log_file,      \* the lines of the flow log
  log_pos,            \* lines parse_flow_logs has consumed
  lookup,             \* self.lookup
  tag_counts,         \* self.tag_counts
  port_proto_counts,  \* self.port_proto_counts
  stderr,             \* the diagnostics printed so far
  exc,                \* the exception that ended the run, "" if none
  outfile,            \* the output file on disk
  first_report,       \* the output file as the first run left it
  calls               \* the methods run() has called, in order

vars == <<pc, invocation, lookup_csv_file, csv_pos, flow_log_file, log_pos,
          lookup, tag_counts, port_proto_counts, stderr, exc, outfile,
          first_report, calls>>

inputs == <<lookup_csv_file, flow_log_file>>

NoFile == [exists |-> FALSE, lines |-> <<>>]

\* FlowLogParser.__init__: the three tables start empty.
NewParser == [lookup |-> <<>>, tag_counts |-> <<>>, port_proto_counts |-> <<>>]

Init ==
  /\ pc = "run"
  /\ invocation = 1
  /\ lookup_csv_file \in {<<h>> : h \in Headers}
  /\ csv_pos = 0
  /\ flow_log_file = <<>>
  /\ log_pos = 0
  /\ lookup = NewParser.lookup
  /\ tag_counts = NewParser.tag_counts
  /\ port_proto_counts = NewParser.port_proto_counts
  /\ stderr = <<>>
  /\ exc = ""
  /\ outfile = NoFile
  /\ first_report = NoFile
  /\ calls = <<>>

\* The rows the reader can yield next.  The first run discovers the file as
\* it reads; the second run reads the same file again.
NextRows ==
  IF invocation = 1
    THEN IF Len(lookup_csv_file) - 1 < MaxRows THEN LookupRows ELSE {}
    ELSE IF csv_pos + 1 < Len(lookup_csv_file)
           THEN {lookup_csv_file[csv_pos + 2]} ELSE {}

NextLines ==
  IF invocation = 1
    THEN IF Len(flow_log_file) < MaxLines THEN LogLines ELSE {}
    ELSE IF log_pos < Len(flow_log_file)
           THEN {flow_log_file[log_pos + 1]} ELSE {}

\* run(): self.load_lookup() is called.
Run ==
  /\ pc = "run"
  /\ pc' = "load_lookup"
  /\ calls' = Append(calls, "load_lookup")
  /\ UNCHANGED <<invocation, inputs, csv_pos, log_pos, lookup, tag_counts,
                 port_proto_counts, stderr, exc, outfile, first_report>>

\* load_lookup: one iteration of the loop over the reader's rows.
LoadRow ==
  /\ pc = "load_lookup"
  /\ \E cells \in NextRows :
       LET r == LoadLookupRow(lookup, lookup_csv_file[1], cells) IN
         /\ lookup_csv_file' =
              IF invocation = 1 THEN Append(lookup_csv_file, cells) ELSE lookup_csv_file
         /\ csv_pos' = csv_pos + 1
         /\ lookup' = r.lookup
         /\ stderr' = stderr \o r.diag
         /\ pc' = IF r.raised THEN "aborted" ELSE "load_lookup"
         /\ exc' = IF r.raised THEN "AttributeError" ELSE exc
  /\ UNCHANGED <<invocation, flow_log_file, log_pos, tag_counts,
                 port_proto_counts, outfile, first_report, calls>>

\* load_lookup: open() or a read of the lookup CSV fails.
LoadIOError ==
  /\ pc = "load_lookup"
  /\ invocation = 1
  /\ pc' = "aborted"
  /\ exc' = "OSError"
  /\ UNCHANGED <<invocation, inputs, csv_pos, log_pos, lookup, tag_counts,
                 port_proto_counts, stderr, outfile, first_report, calls>>

\* load_lookup returns at the end of the file; run() calls parse_flow_logs.
LoadDone ==
  /\ pc = "load_lookup"
  /\ IF invocation = 1 THEN TRUE ELSE csv_pos + 1 = Len(lookup_csv_file)
  /\ pc' = "parse_flow_logs"
  /\ calls' = Append(calls, "parse_flow_logs")
  /\ UNCHANGED <<invocation, inputs, csv_pos, log_pos, lookup, tag_counts,
                 port_proto_counts, stderr, exc, outfile, first_report>>

\* parse_flow_logs: one iteration of the loop over the lines of the log.
ParseLine ==
  /\ pc = "parse_flow_logs"
  /\ \E line \in NextLines :
       LET r == ParseFlowLine(lookup, tag_counts, port_proto_counts, line) IN
         /\ flow_log_file' =
              IF invocation = 1 THEN Append(flow_log_file, line) ELSE flow_log_file
         /\ log_pos' = log_pos + 1
         /\ tag_counts' = r.tag_counts
         /\ port_proto_counts' = r.port_proto_counts
         /\ stderr' = stderr \o r.diag
  /\ UNCHANGED <<pc, invocation, lookup_csv_file, csv_pos, lookup, exc,
                 outfile, first_report, calls>>
\* The failure swallowed: run() goes on to write_output.
ParseIOErrorSwallowed ==
  /\ pc = "parse_flow_logs"
  /\ invocation = 1
  /\ pc' = "write_output"
  /\ exc' = "OSError"
  /\ calls' = Append(calls, "write_output")
  /\ UNCHANGED <<invocation, inputs, csv_pos, log_pos, lookup, tag_counts,
                 port_proto_counts, stderr, outfile, first_report>>

\* parse_flow_logs: open() or a read of the flow log fails.
ParseIOError ==
  /\ pc = "parse_flow_logs"
  /\ invocation = 1
  /\ pc' = "aborted"
  /\ exc' = "OSError"
  /\ UNCHANGED <<invocation, inputs, csv_pos, log_pos, lookup, tag_counts,
                 port_proto_counts, stderr, outfile, first_report, calls>>

\* parse_flow_logs returns at the end of the file; run() calls write_output.
ParseDone ==
  /\ pc = "parse_flow_logs"
  /\ IF invocation = 1 THEN TRUE ELSE log_pos = Len(flow_log_file)
  /\ pc' = "write_output"
  /\ calls' = Append(calls, "write_output")
  /\ UNCHANGED <<invocation, inputs, csv_pos, log_pos, lookup, tag_counts,
                 port_proto_counts, stderr, exc, outfile, first_report>>

\* write_output, then run() prints the confirmation and returns.
WriteOutput ==
  /\ pc = "write_output"
  /\ outfile' = WriteFile(outfile, tag_counts, port_proto_counts)
  /\ pc' = "done"
  /\ UNCHANGED <<invocation, inputs, csv_pos, log_pos, lookup, tag_counts,
                 port_proto_counts, stderr, exc, first_report, calls>>

\* The program is started a second time on the same two input files and the
\* same output path: main() constructs a new FlowLogParser.
RunAgain ==
  /\ pc = "done"
  /\ invocation = 1
  /\ invocation' = 2
  /\ pc' = "run"
  /\ first_report' = outfile
  /\ csv_pos' = 0
  /\ log_pos' = 0
  /\ lookup' = NewParser.lookup
  /\ tag_counts' = NewParser.tag_counts
  /\ port_proto_counts' = NewParser.port_proto_counts
  /\ stderr' = <<>>
  /\ calls' = <<>>
  /\ UNCHANGED <<inputs, exc, outfile>>

\* One run of the program.
Next ==
  \/ Run
  \/ LoadRow
  \/ LoadIOError
  \/ LoadDone
  \/ ParseLine
  \/ ParseIOError
  \/ ParseDone
  \/ WriteOutput

Spec == Init /\ [][Next]_vars

\* Two runs of the program, one after the other, on a lookup CSV with the
\* documented header.
InitTwice == Init /\ lookup_csv_file = << <<dstport, <<" ">> \o protocol, tag \o <<" ">> >> >>

NextTwice ==
  \/ Run
  \/ LoadRow
  \/ LoadIOError
  \/ LoadDone
  \/ ParseLine
  \/ ParseIOError
  \/ ParseDone
  \/ WriteOutput
  \/ RunAgain

SpecTwice == InitTwice /\ [][NextTwice]_vars

(* ======================= properties of the program ===================== *)
\* The data rows load_lookup has consumed, and the lines parse_flow_logs has.
RowsRead == SubSeq(lookup_csv_file, 2, csv_pos + 1)

LinesRead == SubSeq(flow_log_file, 1, log_pos)

\* load_lookup has returned normally.
Loaded == pc \in {"parse_flow_logs", "write_output", "done"}

Count(d, k) == Get(d, k, 0)

RECURSIVE SumValues(_)
SumValues(d) == IF d = <<>> THEN 0 ELSE Head(d)[2] + SumValues(Tail(d))

\* A line with at least 8 tokens whose tokens 6 and 7 (0-indexed) are integers.
Classifiable(line) ==
  LET f == Split(line) IN Len(f) >= 8 /\ IsInt(f[7]) /\ IsInt(f[8])

\* A line that is not blank and not classifiable.
Malformed(line) == Strip(line) # <<>> /\ ~Classifiable(line)

NotMalformed(line) == ~Malformed(line)

\* The protocol registry: 6 -> tcp, 17 -> udp, 1 -> icmp, else the decimal.
RegistryName(n) ==
  CASE n = 6 -> tcp [] n = 17 -> udp [] n = 1 -> icmp [] OTHER -> Str(n)

\* The (port, protocol) key of a classifiable line.
LineKey(line) ==
  LET f == Split(line) IN <<Int_(f[7]), RegistryName(Int_(f[8]))>>

\* The classifiable lines among those read.
ClassifiedLines == {i \in 1..log_pos : Classifiable(flow_log_file[i])}

\* Strict ordinal order of two strings, stated position by position.
LexLess(a, b) ==
  \E i \in 1..Len(b) :
    /\ i <= Len(a) + 1
    /\ \A j \in 1..(i - 1) : a[j] = b[j]
    /\ (i = Len(a) + 1 \/ Ord[a[i]] < Ord[b[i]])

NoUpper(str) == \A i \in 1..Len(str) : ~(Ord[str[i]] >= 65 /\ Ord[str[i]] <= 90)

\* The step that consumes one line of the flow log, and the line consumed.
LineStep == pc = "parse_flow_logs" /\ log_pos' = log_pos + 1

LineTaken == flow_log_file'[log_pos']

\* A table changes at key k by one and nowhere else.
OnlyIncrements(d, dNew, k) ==
  /\ Count(dNew, k) = Count(d, k) + 1
  /\ KeySet(dNew) = KeySet(d) \cup {k}
  /\ \A o \in KeySet(d) \ {k} : Count(dNew, o) = Count(d, o)

\* C1: a line with at least 8 tokens whose tokens 6 and 7 are integers is
\* classified as (port = token 6, protocol = registry name of token 7); its
\* tag is the lookup table's value at that key, or "Untagged" when the key is
\* absent; exactly the count of that tag and the count of that key grow by 1.
C1_ClassifiesLine ==
  [][(LineStep /\ Classifiable(LineTaken)) =>
       LET k == LineKey(LineTaken)
           t == IF Has(lookup, k) THEN Get(lookup, k, <<>>) ELSE Untagged
       IN  /\ OnlyIncrements(tag_counts, tag_counts', t)
           /\ OnlyIncrements(port_proto_counts, port_proto_counts', k)]_vars

\* A run has counted an unknown protocol number as "99"/Untagged and a
\* matched line under its rule's tag.
C1_Witness ==
  /\ Count(port_proto_counts, <<80, <<"9", "9">>>>) = 1
  /\ Count(tag_counts, Untagged) = 1
  /\ Count(tag_counts, <<"w", "e", "b">>) = 1
  /\ Count(port_proto_counts, <<80, tcp>>) = 1

\* C2: after any prefix of the log, the tag counts sum to the number of
\* classified lines, and the port/protocol counts sum to the same number.
C2_SumsMatch ==
  /\ SumValues(tag_counts) = Cardinality(ClassifiedLines)
  /\ SumValues(port_proto_counts) = SumValues(tag_counts)

\* Two classified lines of the same key were read.
C2_Witness ==
  /\ log_pos >= 2
  /\ Cardinality(ClassifiedLines) = 2
  /\ Len(port_proto_counts) = 1

\* The two count tables that parse_flow_logs builds from a sequence of lines.
RECURSIVE CountsOver(_, _, _, _)
CountsOver(lk, tc, ppc, lines) ==
  IF lines = <<>> THEN <<tc, ppc>>
  ELSE LET r == ParseFlowLine(lk, tc, ppc, Head(lines))
       IN  CountsOver(lk, r.tag_counts, r.port_proto_counts, Tail(lines))

\* C3: a malformed line leaves both tables unchanged, prints one diagnostic
\* and does not stop the loop; the tables are those of the log without its
\* malformed lines.
C3_MalformedSkipped ==
  /\ [][(LineStep /\ Malformed(LineTaken)) =>
          /\ tag_counts' = tag_counts
          /\ port_proto_counts' = port_proto_counts
          /\ Len(stderr') = Len(stderr) + 1
          /\ pc' = "parse_flow_logs"]_vars
  /\ [](<<tag_counts, port_proto_counts>> =
          CountsOver(lookup, <<>>, <<>>, SelectSeq(LinesRead, NotMalformed)))

\* A classified line was counted after a malformed one.
C3_Witness ==
  /\ log_pos = 2
  /\ Malformed(flow_log_file[1])
  /\ Classifiable(flow_log_file[2])
  /\ SumValues(tag_counts) = 1
  /\ Len(stderr) >= 1

\* The cell of a data row under the column named name, None if there is none.
Cell(cells, name) ==
  LET h == lookup_csv_file[1] IN
    IF \E i \in 1..Len(cells) : i <= Len(h) /\ Strip(h[i]) = name
      THEN cells[CHOOSE i \in 1..Len(cells) : i <= Len(h) /\ Strip(h[i]) = name]
      ELSE None

\* A data row with fewer cells than the header, or a non-numeric dstport.
MalformedRow(cells) ==
  /\ cells # <<>>
  /\ \/ Len(cells) < Len(lookup_csv_file[1])
     \/ ~IsInt(Cell(cells, dstport))

RowStep == pc = "load_lookup" /\ csv_pos' = csv_pos + 1

RowTaken == lookup_csv_file'[csv_pos' + 1]

\* C4: a malformed lookup row is skipped with a diagnostic and never aborts
\* the load.
C4_MalformedRowSkipped ==
  [][(RowStep /\ MalformedRow(RowTaken)) =>
       /\ pc' = "load_lookup"
       /\ lookup' = lookup
       /\ Len(stderr') = Len(stderr) + 1]_vars

\* A row that load_lookup inserts: every column present, dstport an integer.
WellFormedRow(cells) ==
  /\ Len(cells) = Len(lookup_csv_file[1])
  /\ Cell(cells, dstport) # None /\ IsInt(Cell(cells, dstport))
  /\ Cell(cells, protocol) # None
  /\ Cell(cells, tag) # None

\* The key of a well-formed row after normalisation, and its tag.
RowKey(cells) == <<Int_(Cell(cells, dstport)), Lower(Strip(Cell(cells, protocol)))>>

RowTag(cells) == Strip(Cell(cells, tag))

\* The positions of the well-formed rows read whose key is k.
RowsOf(k) ==
  {i \in 1..Len(RowsRead) : WellFormedRow(RowsRead[i]) /\ RowKey(RowsRead[i]) = k}

Max(S) == CHOOSE x \in S : \A y \in S : y <= x

\* The tag of the last row of key k, "Untagged" if no row has the key.
LastTag(k) == IF RowsOf(k) = {} THEN Untagged ELSE RowTag(RowsRead[Max(RowsOf(k))])

\* The keys of the well-formed rows read.
RowKeys ==
  {RowKey(RowsRead[i]) : i \in {j \in 1..Len(RowsRead) : WellFormedRow(RowsRead[j])}}

\* The keys that two or more rows carry.
DuplicateKeys == {k \in RowKeys : Cardinality(RowsOf(k)) >= 2}

\* C5: at the end of a run, a key that several rows of the lookup CSV carry
\* maps to the tag of the last of them, and every tag's count is the number
\* of classified lines whose key's last rule carries that tag.
C5_LastRuleWins ==
  pc = "done" =>
    /\ \A k \in DuplicateKeys : Get(lookup, k, None) = LastTag(k)
    /\ \A i \in ClassifiedLines :
         LET t == LastTag(LineKey(flow_log_file[i])) IN
           Count(tag_counts, t) =
             Cardinality({j \in ClassifiedLines :
                            LastTag(LineKey(flow_log_file[j])) = t})

\* Two rows of key (80, tcp) with tags web then mail were loaded and a line
\* of that key was counted under mail.
C5_Witness ==
  /\ pc = "done"
  /\ <<80, tcp>> \in DuplicateKeys
  /\ RowTag(RowsRead[1]) = <<"w", "e", "b">>
  /\ Get(lookup, <<80, tcp>>, None) = <<"m", "a", "i", "l">>
  /\ Count(tag_counts, <<"m", "a", "i", "l">>) = 1
  /\ ~Has(tag_counts, <<"w", "e", "b">>)

\* The report's lines, and the sizes of its two sections.
Report == outfile.lines

NumTags == Len(tag_counts)

NumPairs == Len(port_proto_counts)

TagLine(t) == t \o <<",">> \o Str(Count(tag_counts, t))

PairLine(k) ==
  Str(k[1]) \o <<",">> \o k[2] \o <<",">> \o Str(Count(port_proto_counts, k))

\* The key whose row is the i-th of its section.
TagAt(i) == CHOOSE t \in KeySet(tag_counts) : Report[2 + i] = TagLine(t)

PairAt(i) ==
  CHOOSE k \in KeySet(port_proto_counts) : Report[5 + NumTags + i] = PairLine(k)

\* C6: the report has one row per tag in strictly ascending ordinal order of
\* the tag, and one row per (port, protocol) key in strictly ascending order
\* of numeric port, then protocol, whatever the order of insertion.
C6_ReportSorted ==
  pc = "done" =>
    /\ Len(Report) = NumTags + NumPairs + 5
    /\ \A i \in 1..NumTags : \E t \in KeySet(tag_counts) : Report[2 + i] = TagLine(t)
    /\ \A i \in 1..(NumTags - 1) : LexLess(TagAt(i), TagAt(i + 1))
    /\ \A i \in 1..NumPairs :
         \E k \in KeySet(port_proto_counts) : Report[5 + NumTags + i] = PairLine(k)
    /\ \A i \in 1..(NumPairs - 1) :
         \/ PairAt(i)[1] < PairAt(i + 1)[1]
         \/ /\ PairAt(i)[1] = PairAt(i + 1)[1]
            /\ LexLess(PairAt(i)[2], PairAt(i + 1)[2])

\* A report whose two tables were both filled in descending order.
C6_Witness ==
  /\ pc = "done"
  /\ NumTags = 2 /\ LexLess(tag_counts[2][1], tag_counts[1][1])
  /\ NumPairs = 2
  /\ \/ port_proto_counts[2][1][1] < port_proto_counts[1][1][1]
     \/ /\ port_proto_counts[2][1][1] = port_proto_counts[1][1][1]
        /\ LexLess(port_proto_counts[2][1][2], port_proto_counts[1][1][2])

LoadEnded == (pc = "parse_flow_logs" /\ log_pos = 0) \/ pc = "aborted"

\* C8 as stated: after load_lookup every key of the lookup table is a pair
\* of a non-negative integer and a lowercase string.
C8_KeysNonNegative ==
  LoadEnded => \A k \in KeySet(lookup) : k[1] >= 0 /\ NoUpper(k[2])

\* C8 as it holds: after load_lookup every key of the lookup table is the
\* key of a row read whose dstport cell parses as an integer (of either
\* sign), and its protocol has no uppercase letter; a row with another
\* dstport cell inserts no key.
C8_KeysIntegerLowercase ==
  LoadEnded =>
    /\ \A k \in KeySet(lookup) : k \in RowKeys /\ NoUpper(k[2])
    /\ Len(lookup) <=
         Cardinality({i \in 1..Len(RowsRead) : IsInt(Cell(RowsRead[i], dstport))})

\* A row with an uppercase protocol was inserted and a row with a
\* non-numeric dstport was skipped.
C8_Witness ==
  /\ LoadEnded
  /\ csv_pos = 2
  /\ Cell(RowsRead[1], protocol) = <<" ", "T", "C", "P">>
  /\ Cell(RowsRead[2], dstport) = <<"x">>
  /\ KeySet(lookup) = {<<80, tcp>>}
  /\ Len(stderr) = 1

\* C9: the count under "Untagged" is the number of classified lines whose key
\* has no entry in the lookup table, and the count under any other tag is the
\* number of classified lines that matched a rule carrying that tag.
C9_UntaggedCountsUnmatched ==
  Loaded =>
    /\ Count(tag_counts, Untagged) =
         Cardinality({i \in ClassifiedLines : ~Has(lookup, LineKey(flow_log_file[i]))})
    /\ \A t \in KeySet(tag_counts) \ {Untagged} :
         Count(tag_counts, t) =
           Cardinality({i \in ClassifiedLines :
                          /\ Has(lookup, LineKey(flow_log_file[i]))
                          /\ Get(lookup, LineKey(flow_log_file[i]), None) = t})

\* C10: a run that aborts never reaches write_output and leaves no report;
\* a report exists only after load_lookup and parse_flow_logs both returned
\* without a failure; a completed run called load_lookup, parse_flow_logs
\* and write_output, in this order.
C10_ReportAfterBothInputs ==
  /\ (pc = "aborted" \/ exc # "") => (outfile = NoFile /\ pc # "write_output")
  /\ outfile.exists => (pc = "done" /\ exc = "")
  /\ pc = "done" => calls = <<"load_lookup", "parse_flow_logs", "write_output">>

\* The flow log failed to open or read after the lookup CSV was loaded.
C10_Witness ==
  /\ pc = "aborted"
  /\ exc = "OSError"
  /\ calls = <<"load_lookup", "parse_flow_logs">>
  /\ Len(lookup) >= 1

====
